---- MODULE Spec2Model ----
(***************************************************************************)
(* A model of slog-filerotate's FileAppender (src/src/lib.rs): the write   *)
(* and flush path, the throttled reopen, the rotation cascade and the      *)
(* background gzip worker with its one-shot result channel.                *)
(*                                                                         *)
(* Files are byte sequences held in a map from path to file.  A byte of    *)
(* the k-th write is the number k, a byte that was in the active file      *)
(* before the appender was constructed is 0.  Time is a number of          *)
(* milliseconds that only the Tick action advances.                        *)
(***************************************************************************)
EXTENDS Integers, Sequences, FiniteSets, TLC

\* ---------------------------------------------------------------- bounds
MaxKeep == 2          \* rotate_keep is drawn from 0..MaxKeep
MaxRotateSize == 2    \* rotate_size is drawn from 1..MaxRotateSize
MaxWrites == 3        \* number of write calls in a behaviour
MaxWriteLen == 1      \* a write carries 1..MaxWriteLen bytes
MaxInitLen == 1       \* length of the active file found at construction
MaxTicks == 2         \* number of clock advances in a behaviour
MaxFaults == 1        \* number of system calls that fail in a behaviour
MaxDeletes == 1       \* number of external removals of the active path
BufCapacity == 2      \* capacity of the BufWriter (std: 8192), scaled down
LongWriteLen == 2     \* a write of SpecLong carries 1..LongWriteLen bytes

\* ------------------------------------------------------ program constants
reopen_check_interval == 1000
TickMillis == 500

\* ------------------------------------------------------------------ state
VARIABLES
  truncate,           \* FileAppender.truncate
  rotate_size,        \* FileAppender.rotate_size
  rotate_keep,        \* FileAppender.rotate_keep
  rotate_compress,    \* FileAppender.rotate_compress
  file,               \* FileAppender.file: the BufWriter<File>, or None
  written_size,       \* FileAppender.written_size
  wait_compression,   \* FileAppender.wait_compression is Some(rx)
  next_reopen_check,  \* FileAppender.next_reopen_check
  fs,                 \* the directory: path -> file
  now,                \* Instant::now(), in milliseconds
  chan,               \* the mpsc channel whose receiver the appender holds
  workers,            \* the compressor threads that are running
  apc,                \* where the caller's thread stands inside flush
  wseq,               \* writes issued so far
  rotations,          \* rotations completed so far (saturates)
  retired,            \* contents of the files retired last, newest first
  last_op,            \* the call the caller made last
  last_res,           \* what the last write or flush returned
  last_how,           \* the way the last flush took through rotate
  faults,             \* system calls the operating system has refused
  deletes,            \* removals of the active path by other processes
  deleted_at          \* the time of the last such removal, -1 before it

vars == <<truncate, rotate_size, rotate_keep, rotate_compress, file,
          written_size, wait_compression, next_reopen_check, fs, now, chan,
          workers, apc, wseq, rotations, retired,
          last_op, last_res, last_how, faults, deletes, deleted_at>>

config == <<truncate, rotate_size, rotate_keep, rotate_compress>>

\* ---------------------------------------------------------------- paths
\* self.path
ActivePath == <<"log", 0>>

\* FileAppender::rotated_path: "{path}.{i}.gz" or "{path}.{i}"
rotated_path_of(compress, i) == IF compress THEN <<"gz", i>> ELSE <<"plain", i>>

rotated_path(i) == rotated_path_of(rotate_compress, i)

\* FileAppender::rotated_paths_for_compression: ("{path}.1", "{path}.1.gz.temp")
rotated_paths_for_compression == << <<"plain", 1>>, <<"temp", 1>> >>

PlainPath == rotated_paths_for_compression[1]
TempPath == rotated_paths_for_compression[2]

Paths ==
  {ActivePath, TempPath}
    \cup {<<"plain", i>> : i \in 1..(MaxKeep + 1)}
    \cup {<<"gz", i>> : i \in 1..(MaxKeep + 1)}

\* ---------------------------------------------------------------- files
NoFile == [exists |-> FALSE, data |-> <<>>]
FileOf(bytes) == [exists |-> TRUE, data |-> bytes]

\* fs::rename(from, to): the target is replaced, the source disappears
Rename(dir, from, to) ==
  IF from = to THEN dir
  ELSE [dir EXCEPT ![to] = dir[from], ![from] = NoFile]

\* fs::remove_file(p)
RemoveFile(dir, p) == [dir EXCEPT ![p] = NoFile]

\* -------------------------------------------------------------- gzip
\* libflate's gzip Encoder, as a stream: a header byte, the payload
\* recoded byte by byte, and a trailer that carries the payload length.
GzHeader == 31
GzTrailerBase == 200
DeflateShift == 100

Deflate(bytes) == [k \in 1..Len(bytes) |-> bytes[k] + DeflateShift]

\* GzipEncoder::new(file): the header is written
GzipBegin == <<GzHeader>>

\* io::copy(&mut input, &mut temp): k payload bytes have gone through
GzipCopy(bytes, k) == GzipBegin \o Deflate(SubSeq(bytes, 1, k))

\* temp.finish(): the trailer
GzipFinish(stream) == Append(stream, GzTrailerBase + (Len(stream) - 1))

GzipEncode(bytes) == GzipFinish(GzipCopy(bytes, Len(bytes)))

IsCompleteGzip(s) ==
  /\ Len(s) >= 2
  /\ s[1] = GzHeader
  /\ s[Len(s)] = GzTrailerBase + (Len(s) - 2)
  /\ \A k \in 2..(Len(s) - 1) : s[k] >= DeflateShift /\ s[k] < GzTrailerBase

Gunzip(s) == [k \in 1..(Len(s) - 2) |-> s[k + 1] - DeflateShift]

\* ------------------------------------------------------------ BufWriter
NoHandle == [open |-> FALSE, linked |-> FALSE, buf |-> <<>>]
FreshHandle == [open |-> TRUE, linked |-> TRUE, buf |-> <<>>]

\* bytes reach the file the handle was opened on; when that file has been
\* unlinked they reach no path
ToDisk(f, dir, bytes) ==
  IF f.open /\ f.linked
  THEN [dir EXCEPT ![ActivePath] = FileOf(dir[ActivePath].data \o bytes)]
  ELSE dir

\* BufWriter::flush: the buffer goes to the file
BufFlush(a) ==
  [a EXCEPT !.fs = ToDisk(a.file, a.fs, a.file.buf), !.file.buf = <<>>]

\* dropping the BufWriter (self.file = None, self.file.take()) flushes it
DropFile(a) == [BufFlush(a) EXCEPT !.file = NoHandle]

\* BufWriter::write
BufWrite(a, bytes) ==
  LET a1 == IF Len(a.file.buf) + Len(bytes) > BufCapacity THEN BufFlush(a) ELSE a
  IN IF Len(bytes) >= BufCapacity
     THEN [a1 EXCEPT !.fs = ToDisk(a1.file, a1.fs, bytes)]
     ELSE [a1 EXCEPT !.file.buf = a1.file.buf \o bytes]

\* ---------------------------------------------------- the appender record
\* The operators below take and return the fields a call on the caller's
\* thread reads and writes: the appender's own, the directory, the channel,
\* and what the call did (ok: it returned Ok so far; spawn: it started a
\* compressor thread; retire: it renamed the active file away, content: the
\* bytes of that file; done: rotate ran to its end; refused: the operating
\* system refused one of its calls).
Appender ==
  [file |-> file, written_size |-> written_size,
   wait_compression |-> wait_compression,
   next_reopen_check |-> next_reopen_check, fs |-> fs, chan |-> chan,
   ok |-> TRUE, spawn |-> FALSE, retire |-> FALSE,
   content |-> <<>>, done |-> FALSE, refused |-> FALSE]

Failed(a) == [a EXCEPT !.ok = FALSE]
Refused(a) == [a EXCEPT !.ok = FALSE, !.refused = TRUE]

\* The step of a rotation at which the operating system refuses a call.
NoFault == <<"none", 0>>
Faults ==
  {NoFault, <<"retire", 0>>, <<"prune", 0>>, <<"open", 0>>}
    \cup {<<"cascade", i>> : i \in 1..MaxKeep}

\* the file is truncated on every open
OpenActive_truncates(dir, trunc) == FileOf(<<>>)

\* OpenOptions::new().create(true).truncate(t).append(!t).write(true).open(path)
OpenActive(dir, trunc) ==
  IF dir[ActivePath].exists /\ ~trunc THEN dir[ActivePath] ELSE FileOf(<<>>)

\* the counter restarts at 0 on every open, whatever the file holds
reopen_if_needed_resets(a, open_fails) ==
  LET check == now >= a.next_reopen_check
      path_exists == IF check THEN a.fs[ActivePath].exists ELSE TRUE
      a1 == IF check
            THEN [a EXCEPT !.next_reopen_check = now + reopen_check_interval]
            ELSE a
  IN IF ~a1.file.open \/ ~path_exists
     THEN LET a2 == DropFile(a1)
              opened == OpenActive(a2.fs, truncate)
          IN IF open_fails
             THEN Refused(a2)
             ELSE [a2 EXCEPT !.fs[ActivePath] = opened,
                             !.written_size = 0,
                             !.file = FreshHandle]
     ELSE a1

\* the check does not push next_reopen_check on: every write checks
reopen_if_needed_unthrottled(a, open_fails) ==
  LET check == now >= a.next_reopen_check
      path_exists == IF check THEN a.fs[ActivePath].exists ELSE TRUE
      a1 == IF check THEN [a EXCEPT !.next_reopen_check = now] ELSE a
  IN IF ~a1.file.open \/ ~path_exists
     THEN LET a2 == DropFile(a1)
              opened == OpenActive(a2.fs, truncate)
          IN IF open_fails
             THEN Refused(a2)
             ELSE [a2 EXCEPT !.fs[ActivePath] = opened,
                             !.written_size = Len(opened.data),
                             !.file = FreshHandle]
     ELSE a1

\* the existence check left out: only a missing handle is reopened
reopen_if_needed_unchecked(a, open_fails) ==
  IF ~a.file.open
  THEN LET opened == OpenActive(a.fs, truncate)
       IN IF open_fails
          THEN Refused(a)
          ELSE [a EXCEPT !.fs[ActivePath] = opened,
                         !.written_size = Len(opened.data),
                         !.file = FreshHandle]
  ELSE a

\* FileAppender::reopen_if_needed
reopen_if_needed(a, open_fails) ==
  LET check == now >= a.next_reopen_check
      path_exists == IF check THEN a.fs[ActivePath].exists ELSE TRUE
      a1 == IF check
            THEN [a EXCEPT !.next_reopen_check = now + reopen_check_interval]
            ELSE a
  IN IF ~a1.file.open \/ ~path_exists
     THEN LET a2 == DropFile(a1)
              opened == OpenActive(a2.fs, truncate)
          IN IF open_fails
             THEN Refused(a2)
             ELSE [a2 EXCEPT !.fs[ActivePath] = opened,
                             !.written_size = Len(opened.data),
                             !.file = FreshHandle]
     ELSE a1

\* the cascade run from slot 1 upwards: with i slots still to go it moves
\* slot rotate_keep - i + 1
RECURSIVE cascade_ascending(_, _, _)
cascade_ascending(a, i, fault) ==
  IF i = 0 THEN a
  ELSE LET from == rotated_path(rotate_keep - i + 1)
           to == rotated_path(rotate_keep - i + 2)
       IN IF a.fs[from].exists
          THEN IF fault = <<"cascade", rotate_keep - i + 1>>
               THEN Refused(a)
               ELSE cascade_ascending([a EXCEPT !.fs = Rename(a.fs, from, to)],
                                      i - 1, fault)
          ELSE cascade_ascending(a, i - 1, fault)

\* rotate, lines 104-110: for i in (1..=rotate_keep).rev()
RECURSIVE cascade(_, _, _)
cascade(a, i, fault) ==
  IF i = 0 THEN a
  ELSE LET from == rotated_path(i)
           to == rotated_path(i + 1)
       IN IF a.fs[from].exists
          THEN IF fault = <<"cascade", i>>
               THEN Refused(a)
               ELSE cascade([a EXCEPT !.fs = Rename(a.fs, from, to)], i - 1, fault)
          ELSE cascade(a, i - 1, fault)

\* rotate, lines 111-129: the active file moves to slot 1; with compression
\* it moves to the plain slot 1 and a thread is spawned on a new channel
retire(a, fault) ==
  IF ~a.fs[ActivePath].exists THEN a
  ELSE IF fault = <<"retire", 0>> THEN Refused(a)
  ELSE IF rotate_compress
  THEN [a EXCEPT !.fs = Rename(a.fs, ActivePath, PlainPath),
                 !.retire = TRUE, !.content = a.fs[ActivePath].data,
                 !.spawn = TRUE, !.chan = "empty",
                 !.wait_compression = TRUE]
  ELSE [a EXCEPT !.fs = Rename(a.fs, ActivePath, rotated_path(1)),
                 !.retire = TRUE, !.content = a.fs[ActivePath].data]

\* the poll taken for blocking: a compression that is still running does
\* not stop the rotation
gate_ignores_running(a) ==
  IF ~a.wait_compression \/ a.chan = "empty"
  THEN [a |-> [a EXCEPT !.wait_compression = FALSE], pass |-> TRUE]
  ELSE IF a.chan = "disconnected" THEN [a |-> Failed(a), pass |-> FALSE]
  ELSE IF a.chan = "err"
  THEN [a |-> Failed([a EXCEPT !.chan = "disconnected"]), pass |-> FALSE]
  ELSE [a |-> [a EXCEPT !.chan = "disconnected", !.wait_compression = FALSE],
        pass |-> TRUE]

\* a pending compression stops every rotation, finished or not
gate_never_passes(a) ==
  IF ~a.wait_compression THEN [a |-> a, pass |-> TRUE]
  ELSE [a |-> a, pass |-> FALSE]

\* the worker's error is dropped and the rotation goes on
gate_drops_error(a) ==
  IF ~a.wait_compression THEN [a |-> a, pass |-> TRUE]
  ELSE IF a.chan = "empty" THEN [a |-> a, pass |-> FALSE]
  ELSE IF a.chan = "disconnected" THEN [a |-> Failed(a), pass |-> FALSE]
  ELSE [a |-> [a EXCEPT !.chan = "disconnected", !.wait_compression = FALSE],
        pass |-> TRUE]

\* rotate, lines 82-101: the non-blocking poll of the pending compression.
\* gate.pass tells whether rotate goes on.
gate(a) ==
  IF ~a.wait_compression THEN [a |-> a, pass |-> TRUE]
  ELSE IF a.chan = "empty" THEN [a |-> a, pass |-> FALSE]
  ELSE IF a.chan = "disconnected" THEN [a |-> Failed(a), pass |-> FALSE]
  ELSE IF a.chan = "err"
  THEN [a |-> Failed([a EXCEPT !.chan = "disconnected"]), pass |-> FALSE]
  ELSE [a |-> [a EXCEPT !.chan = "disconnected", !.wait_compression = FALSE],
        pass |-> TRUE]

\* self.file.take() moved before the poll
rotate_begin_takes_first(a, fault) ==
  LET g == gate(DropFile(a))
  IN IF ~g.pass THEN g.a
     ELSE LET a2 == cascade(g.a, rotate_keep, fault)
          IN IF ~a2.ok THEN a2 ELSE retire(a2, fault)

\* rotate, lines 82-129: up to and including thread::spawn
rotate_begin(a, fault) ==
  LET g == gate(a)
  IN IF ~g.pass THEN g.a
     ELSE LET a1 == DropFile(g.a)
              a2 == cascade(a1, rotate_keep, fault)
          IN IF ~a2.ok THEN a2 ELSE retire(a2, fault)

\* the prune off by one: rotated_path(rotate_keep) is deleted
rotate_end_prunes_kept(a, fault) ==
  LET delete_path == rotated_path(IF rotate_keep = 0 THEN 1 ELSE rotate_keep)
  IN IF a.fs[delete_path].exists /\ fault = <<"prune", 0>>
     THEN Refused(a)
     ELSE LET a1 == [a EXCEPT !.fs = RemoveFile(a.fs, delete_path),
                              !.written_size = 0,
                              !.next_reopen_check = now]
          IN [reopen_if_needed(a1, fault = <<"open", 0>>) EXCEPT !.done = TRUE]

\* the prune left out
rotate_end_keeps_all(a, fault) ==
  LET a1 == [a EXCEPT !.written_size = 0, !.next_reopen_check = now]
  IN [reopen_if_needed(a1, fault = <<"open", 0>>) EXCEPT !.done = TRUE]

\* rotate, lines 131-139: prune, reset the counter, reopen
rotate_end(a, fault) ==
  LET delete_path == rotated_path(rotate_keep + 1)
  IN IF a.fs[delete_path].exists /\ fault = <<"prune", 0>>
     THEN Refused(a)
     ELSE LET a1 == [a EXCEPT !.fs = RemoveFile(a.fs, delete_path),
                              !.written_size = 0,
                              !.next_reopen_check = now]
          IN [reopen_if_needed(a1, fault = <<"open", 0>>) EXCEPT !.done = TRUE]

\* rotate went past its gate and has not returned an error
Rotating(a0, a) == a.ok /\ gate(a0).pass

\* FileAppender::rotate, on one thread
rotate(a, fault) ==
  LET a1 == rotate_begin(a, fault)
  IN IF Rotating(a, a1) THEN rotate_end(a1, fault) ELSE a1

\* <FileAppender as Write>::flush, lines 200-203: f.flush(), then the threshold
flush_buffer(a) == IF a.file.open THEN BufFlush(a) ELSE a

MustRotate(a) == a.written_size >= rotate_size

\* the threshold is looked at in write as well, which rotates when it is met
write_rotates(a, bytes, open_fails) ==
  LET a1 == reopen_if_needed(a, open_fails)
      a2 == [BufWrite(a1, SubSeq(bytes, 1, 1)) EXCEPT
               !.written_size = a1.written_size + 1]
      a3 == IF MustRotate(a2) THEN rotate(flush_buffer(a2), NoFault) ELSE a2
      rest == SubSeq(bytes, 2, Len(bytes))
  IN IF ~a1.ok THEN a1
     ELSE IF ~a1.file.open THEN Failed(a1)
     ELSE IF ~a3.ok \/ ~a3.file.open THEN a3
     ELSE [BufWrite(a3, rest) EXCEPT
             !.written_size = a3.written_size + Len(rest)]

\* the counter takes the size of the last write instead of growing by it
write_counts_last(a, bytes, open_fails) ==
  LET a1 == reopen_if_needed(a, open_fails)
  IN IF ~a1.ok THEN a1
     ELSE IF ~a1.file.open THEN Failed(a1)
     ELSE [BufWrite(a1, bytes) EXCEPT !.written_size = Len(bytes)]

\* <FileAppender as Write>::write
write(a, bytes, open_fails) ==
  LET a1 == reopen_if_needed(a, open_fails)
  IN IF ~a1.ok THEN a1
     ELSE IF ~a1.file.open THEN Failed(a1)
     ELSE [BufWrite(a1, bytes) EXCEPT
             !.written_size = a1.written_size + Len(bytes)]

\* ------------------------------------------------------------- Init
InitialFiles ==
  {NoFile} \cup {FileOf([k \in 1..n |-> 0]) : n \in 1..MaxInitLen}

\* FileAppender::new, over a directory that holds at most the active file
Init ==
  /\ truncate \in BOOLEAN
  /\ rotate_size \in 1..MaxRotateSize
  /\ rotate_keep \in 0..MaxKeep
  /\ rotate_compress \in BOOLEAN
  /\ file = NoHandle
  /\ written_size = 0
  /\ wait_compression = FALSE
  /\ now = 0
  /\ next_reopen_check = now
  /\ \E f \in InitialFiles :
        fs = [p \in Paths |-> IF p = ActivePath THEN f ELSE NoFile]
  /\ chan = "none"
  /\ workers = <<>>
  /\ apc = "idle"
  /\ wseq = 0
  /\ rotations = 0
  /\ retired = <<>>
  /\ last_op = "new"
  /\ last_res = "none"
  /\ last_how = "none"
  /\ faults = 0
  /\ deletes = 0
  /\ deleted_at = -1

\* ------------------------------------------------------------ actions
RotationCap == MaxKeep + 1

Min(x, y) == IF x <= y THEN x ELSE y

\* the fields of the appender record become the next state
Commit(a) ==
  /\ file' = a.file
  /\ written_size' = a.written_size
  /\ wait_compression' = a.wait_compression
  /\ next_reopen_check' = a.next_reopen_check
  /\ fs' = a.fs
  /\ chan' = a.chan
  /\ faults' = IF a.refused THEN faults + 1 ELSE faults

\* a call may be refused while the budget of refusals lasts
MayFail(fails) == fails => faults < MaxFaults

\* thread::spawn: the new thread holds the sender of the new channel; the
\* receiver of the channel before it is dropped
Spawn(ws, a) ==
  IF a.spawn
  THEN Append([w \in 1..Len(ws) |-> [ws[w] EXCEPT !.cur = FALSE]],
              [pc |-> "open", cur |-> TRUE])
  ELSE ws

\* a file that was retired RotationCap retirements ago has left the directory
Retire(a) ==
  retired' = IF a.retire
             THEN SubSeq(<<a.content>> \o retired, 1,
                         Min(Len(retired) + 1, RotationCap))
             ELSE retired

Rotations(a) ==
  rotations' = IF a.done /\ a.ok THEN Min(rotations + 1, RotationCap)
               ELSE rotations

Result(a) == IF a.ok THEN "Ok" ELSE "Err"

\* the caller writes the n bytes of its next record
Write(n, open_fails) ==
  /\ apc = "idle"
  /\ wseq < MaxWrites
  /\ MayFail(open_fails)
  /\ LET a == write(Appender, [k \in 1..n |-> wseq + 1], open_fails)
     IN /\ Commit(a)
        /\ last_res' = Result(a)
  /\ wseq' = wseq + 1
  /\ last_op' = "write"
  /\ last_how' = "none"
  /\ UNCHANGED <<config, now, workers, apc, rotations, retired,
                 deletes, deleted_at>>

\* the way a flush took: below the threshold; stopped at the gate by a
\* running compression or by its error; through rotate, with the active
\* file retired or with no active file to retire
How(a0, a) ==
  IF ~MustRotate(a0) THEN "below"
  ELSE IF gate(a0).pass THEN (IF a.retire THEN "retire" ELSE "skip")
  ELSE IF a.ok THEN "pending" ELSE "gate"

\* the caller flushes; a rotation that spawned a compressor thread leaves
\* the caller inside rotate, after thread::spawn
Flush(fault) ==
  /\ apc = "idle"
  /\ MayFail(fault # NoFault)
  /\ \E a0 \in {flush_buffer(Appender)} :
     \E a1 \in {IF MustRotate(a0) THEN rotate_begin(a0, fault) ELSE a0} :
     \E goes_on \in {MustRotate(a0) /\ Rotating(a0, a1)} :
     \E a \in {IF goes_on /\ ~a1.spawn THEN rotate_end(a1, fault) ELSE a1} :
        /\ Commit(a)
        /\ Retire(a)
        /\ Rotations(a)
        /\ workers' = Spawn(workers, a)
        /\ apc' = IF goes_on /\ a1.spawn THEN "spawned" ELSE "idle"
        /\ last_res' = IF goes_on /\ a1.spawn THEN "none" ELSE Result(a)
        /\ last_how' = How(a0, a)
  /\ last_op' = "flush"
  /\ UNCHANGED <<config, now, wseq, deletes, deleted_at>>

\* the caller's thread runs rotate on from thread::spawn to its return
FlushEnd(fault) ==
  /\ apc = "spawned"
  /\ MayFail(fault # NoFault)
  /\ LET a == rotate_end(Appender, fault)
     IN /\ Commit(a)
        /\ Rotations(a)
        /\ last_res' = Result(a)
  /\ apc' = "idle"
  /\ UNCHANGED <<config, now, workers, wseq, retired, last_op,
                 last_how, deletes, deleted_at>>

\* the clock advances
Tick ==
  /\ apc = "idle"
  /\ now < MaxTicks * TickMillis
  /\ now' = now + TickMillis
  /\ UNCHANGED <<config, file, written_size, wait_compression,
                 next_reopen_check, fs, chan, workers, apc, wseq, rotations,
                 retired, last_op, last_res, last_how,
                 faults, deletes, deleted_at>>

\* another process removes the active path; an open handle keeps its file
ExternalDelete ==
  /\ apc = "idle"
  /\ deletes < MaxDeletes
  /\ fs[ActivePath].exists
  /\ fs' = RemoveFile(fs, ActivePath)
  /\ file' = [file EXCEPT !.linked = FALSE]
  /\ deletes' = deletes + 1
  /\ deleted_at' = now
  /\ UNCHANGED <<config, written_size, wait_compression, next_reopen_check,
                 now, chan, workers, apc, wseq, rotations, retired, last_op, last_res, last_how, faults>>

\* ------------------------------------------------- the compressor thread
\* FileAppender::compress(plain_path, temp_gz_path, rotated_path), one
\* system call per step; a step the operating system refuses ends the
\* thread with Err.
RemoveAt(ws, w) == [k \in 1..(Len(ws) - 1) |-> IF k < w THEN ws[k] ELSE ws[k + 1]]

\* tx.send(result), line 121: the result reaches the receiver unless the
\* receiver was dropped; the thread ends
Send(w, result) ==
  /\ chan' = IF workers[w].cur THEN result ELSE chan
  /\ workers' = RemoveAt(workers, w)

Goto(w, pc) ==
  /\ workers' = [workers EXCEPT ![w].pc = pc]
  /\ chan' = chan

WorkerFrame(fails) ==
  /\ MayFail(fails)
  /\ faults' = IF fails THEN faults + 1 ELSE faults
  /\ UNCHANGED <<config, file, written_size, wait_compression,
                 next_reopen_check, now, apc, wseq, rotations, retired,
                 last_op, last_res, last_how, deletes, deleted_at>>

\* line 172: File::open(&input_path)?
CompressOpen(w, fails) ==
  /\ workers[w].pc = "open"
  /\ IF fails \/ ~fs[PlainPath].exists
     THEN Send(w, "err")
     ELSE Goto(w, "create")
  /\ fs' = fs
  /\ WorkerFrame(fails)

\* line 173: GzipEncoder::new(File::create(&temp_path)?)?
CompressCreate(w, fails) ==
  /\ workers[w].pc = "create"
  /\ IF fails
     THEN Send(w, "err") /\ fs' = fs
     ELSE Goto(w, "copy") /\ fs' = [fs EXCEPT ![TempPath] = FileOf(GzipBegin)]
  /\ WorkerFrame(fails)

\* line 174: io::copy(&mut input, &mut temp)?, which stops after k bytes
\* when it fails
CompressCopy(w, k, fails) ==
  /\ workers[w].pc = "copy"
  /\ k \in 0..Len(fs[PlainPath].data)
  /\ fails \/ k = Len(fs[PlainPath].data)
  /\ IF fails THEN Send(w, "err") ELSE Goto(w, "finish")
  /\ fs' = IF fs[TempPath].exists
           THEN [fs EXCEPT ![TempPath] = FileOf(GzipCopy(fs[PlainPath].data, k))]
           ELSE fs
  /\ WorkerFrame(fails)

\* temp.finish() left out: the stream is renamed without its trailer
CompressFinishSkipped(w, fails) ==
  /\ workers[w].pc = "finish"
  /\ IF fails THEN Send(w, "err") ELSE Goto(w, "rename")
  /\ fs' = fs
  /\ WorkerFrame(fails)

\* line 175: temp.finish().into_result()?
CompressFinish(w, fails) ==
  /\ workers[w].pc = "finish"
  /\ IF fails
     THEN Send(w, "err") /\ fs' = fs
     ELSE /\ Goto(w, "rename")
          /\ fs' = IF fs[TempPath].exists
                   THEN [fs EXCEPT ![TempPath] = FileOf(GzipFinish(fs[TempPath].data))]
                   ELSE fs
  /\ WorkerFrame(fails)

\* the input is removed although the rename to the final path failed
CompressRenameDropsInput(w, fails) ==
  /\ workers[w].pc = "rename"
  /\ IF fails \/ ~fs[TempPath].exists
     THEN Send(w, "err") /\ fs' = RemoveFile(fs, PlainPath)
     ELSE Goto(w, "remove") /\ fs' = Rename(fs, TempPath, rotated_path_of(TRUE, 1))
  /\ WorkerFrame(fails)

\* line 177: fs::rename(temp_path, output_path)?
CompressRename(w, fails) ==
  /\ workers[w].pc = "rename"
  /\ IF fails \/ ~fs[TempPath].exists
     THEN Send(w, "err") /\ fs' = fs
     ELSE Goto(w, "remove") /\ fs' = Rename(fs, TempPath, rotated_path_of(TRUE, 1))
  /\ WorkerFrame(fails)

\* lines 178-179 and 121: fs::remove_file(input_path)?; Ok(())
CompressRemove(w, fails) ==
  /\ workers[w].pc = "remove"
  /\ IF fails \/ ~fs[PlainPath].exists
     THEN Send(w, "err") /\ fs' = fs
     ELSE Send(w, "ok") /\ fs' = RemoveFile(fs, PlainPath)
  /\ WorkerFrame(fails)

MaxFileLen == MaxInitLen + MaxWrites * (MaxWriteLen + LongWriteLen)

Compress(w, fails) ==
  \/ CompressOpen(w, fails)
  \/ CompressCreate(w, fails)
  \/ \E k \in 0..MaxFileLen : CompressCopy(w, k, fails)
  \/ CompressFinish(w, fails)
  \/ CompressRename(w, fails)
  \/ CompressRemove(w, fails)

\* ------------------------------------------------------ specifications
WriteLens == 1..MaxWriteLen

Next ==
  \/ \E n \in WriteLens, open_fails \in BOOLEAN : Write(n, open_fails)
  \/ \E fault \in Faults : Flush(fault)
  \/ \E fault \in Faults : FlushEnd(fault)
  \/ Tick
  \/ ExternalDelete
  \/ \E w \in 1..Len(workers), fails \in BOOLEAN : Compress(w, fails)

Spec == Init /\ [][Next]_vars

\* The appender alone: every system call succeeds and no other process
\* touches the directory.
NextQuiet ==
  \/ \E n \in WriteLens : Write(n, FALSE)
  \/ Flush(NoFault)
  \/ FlushEnd(NoFault)
  \/ Tick
  \/ \E w \in 1..Len(workers) : Compress(w, FALSE)

SpecQuiet == Init /\ [][NextQuiet]_vars

\* The appender alone, with a scheduler that lets every compressor thread
\* and the caller's thread inside rotate run on, and a caller that goes on
\* flushing while written_size >= rotate_size.
SpecLive ==
  /\ Init /\ [][NextQuiet]_vars
  /\ WF_vars(\E w \in 1..Len(workers) : Compress(w, FALSE))
  /\ WF_vars(FlushEnd(NoFault))
  /\ WF_vars(written_size >= rotate_size /\ Flush(NoFault))

\* Writes of more than one byte, which a rotation could cut in two; the
\* only call that is refused is the open of a write.
NextLong ==
  \/ \E n \in 1..LongWriteLen, open_fails \in BOOLEAN : Write(n, open_fails)
  \/ Flush(NoFault)
  \/ FlushEnd(NoFault)
  \/ Tick
  \/ ExternalDelete
  \/ \E w \in 1..Len(workers) : Compress(w, FALSE)

SpecLong == Init /\ [][NextLong]_vars

\* The example of the rotation threshold: one appender without compression
\* that keeps two backups, a first write that stays below rotate_size and a
\* second one that passes it, on a path that does not exist yet.
ExampleRotateSize == 10
ExampleFirstLen == 5
ExampleSecondLen == 6
ExampleKeep == 2

InitExample ==
  /\ truncate \in BOOLEAN
  /\ rotate_size = ExampleRotateSize
  /\ rotate_keep = ExampleKeep
  /\ rotate_compress = FALSE
  /\ file = NoHandle
  /\ written_size = 0
  /\ wait_compression = FALSE
  /\ now = 0
  /\ next_reopen_check = now
  /\ fs = [p \in Paths |-> NoFile]
  /\ chan = "none"
  /\ workers = <<>>
  /\ apc = "idle"
  /\ wseq = 0
  /\ rotations = 0
  /\ retired = <<>>
  /\ last_op = "new"
  /\ last_res = "none"
  /\ last_how = "none"
  /\ faults = 0
  /\ deletes = 0
  /\ deleted_at = -1

NextExample ==
  \/ \E n \in {ExampleFirstLen, ExampleSecondLen} : Write(n, FALSE)
  \/ Flush(NoFault)
  \/ Tick

SpecExample == InitExample /\ [][NextExample]_vars

\* ------------------------------------------------------------ claims
\* what the claims speak of
Indices == 1..(MaxKeep + 1)

\* the bytes of the active file, those the BufWriter still holds included
ActiveBytes ==
  IF file.open /\ file.linked
  THEN fs[ActivePath].data \o file.buf
  ELSE fs[ActivePath].data

\* a step in which a call of flush returns
FlushReturns ==
  \E fault \in Faults : (Flush(fault) \/ FlushEnd(fault)) /\ apc' = "idle"

\* a step in which a call of flush begins
FlushBegins == \E fault \in Faults : Flush(fault)

\* a step that is a call of write with n bytes
WriteCall(n) == \E open_fails \in BOOLEAN : Write(n, open_fails)

\* the bytes the active file held when the flush that returns in this step
\* began: those of the file as the step finds it, or, when the step is the
\* second half of a flush, those of the file it retired
BytesBeforeFlush == IF apc = "spawned" THEN retired[1] ELSE ActiveBytes

\* slot 1 holds the bytes b: as {path}.1 (rotate_compress = false, or the
\* compressor has not removed it yet) or compressed as {path}.1.gz
Backup1Holds(b) ==
  \/ fs[PlainPath].exists /\ fs[PlainPath].data = b
  \/ /\ rotate_compress
     /\ fs[<<"gz", 1>>].exists
     /\ IsCompleteGzip(fs[<<"gz", 1>>].data)
     /\ Gunzip(fs[<<"gz", 1>>].data) = b

ActiveFresh == fs[ActivePath].exists /\ fs[ActivePath].data = <<>>

\* C1, as stated: a flush at which written_size >= rotate_size and that
\* returns Ok leaves the active path existing and empty and a backup at
\* index 1 that holds the bytes the active file held before the flush.
C1_AsStated ==
  [][(FlushReturns /\ last_how' # "below" /\ last_res' = "Ok")
       => (ActiveFresh' /\ \E b \in {BytesBeforeFlush} : Backup1Holds(b)')]_vars

\* C1, amended: the same, for rotate_keep >= 1 and a flush that retires the
\* active file (no earlier compression is still running and the active
\* path exists at the flush).
C1_RotationBacksUp ==
  [][(FlushReturns /\ last_how' = "retire" /\ last_res' = "Ok"
        /\ rotate_keep >= 1)
       => (/\ ActiveFresh'
           /\ written_size' = 0
           /\ file'.open /\ file'.linked
           /\ \E b \in {BytesBeforeFlush} : Backup1Holds(b)')]_vars

C1_Witness ==
  /\ last_op = "flush" /\ last_res = "Ok" /\ last_how = "retire"
  /\ apc = "idle"
  /\ rotate_keep >= 1 /\ rotate_compress
  /\ Len(retired) >= 1 /\ Len(retired[1]) >= 2
  /\ ActiveFresh
  /\ fs[PlainPath].data = retired[1]

\* C2: with rotate_compress, at most one compressor thread is running in
\* every reachable state.
C2_OneWorker == rotate_compress => Len(workers) <= 1

\* a flush met the threshold while the compressor was running
C2_Witness ==
  /\ rotate_compress
  /\ last_op = "flush" /\ last_how = "pending"
  /\ Len(workers) = 1

\* C3: a flush that meets the threshold while a compression is still
\* running returns Ok and changes nothing but the bytes it flushes into the
\* active file: the handle stays open, written_size and the pending
\* compression stay, no thread is started and no path appears, disappears
\* or changes its content.
C3_PendingFlushIsNoOp ==
  [][(FlushBegins /\ last_how' = "pending")
       => (/\ last_res' = "Ok"
           /\ apc' = "idle"
           /\ file' = [file EXCEPT !.buf = <<>>]
           /\ written_size' = written_size
           /\ wait_compression /\ wait_compression'
           /\ chan' = chan
           /\ workers' = workers
           /\ rotations' = rotations
           /\ retired' = retired
           /\ \A p \in Paths : fs'[p].exists = fs[p].exists
           /\ \A p \in Paths \ {ActivePath} : fs'[p] = fs[p]
           /\ ActiveBytes' = ActiveBytes)]_vars

C3_Witness ==
  /\ last_op = "flush" /\ last_how = "pending" /\ last_res = "Ok"
  /\ written_size >= rotate_size
  /\ wait_compression /\ chan = "empty"
  /\ file.open
  /\ fs[PlainPath].exists

\* the indices at which a backup exists, as {path}.i or as {path}.i.gz
BackupIndices ==
  {i \in Indices : fs[<<"plain", i>>].exists \/ fs[<<"gz", i>>].exists}

\* C4: with rotate_compress = false, once rotate_keep + 1 or more rotations
\* have succeeded exactly the backups 1..rotate_keep exist beside the active
\* file, and after every successful rotation no backup has an index above
\* rotate_keep.
C4_PruneKeepsExactly ==
  ~rotate_compress =>
    /\ rotations >= rotate_keep + 1 =>
         /\ BackupIndices = 1..rotate_keep
         /\ fs[ActivePath].exists
    /\ rotations >= 1 => \A i \in BackupIndices : i <= rotate_keep

C4_Witness ==
  /\ ~rotate_compress
  /\ rotate_keep = 2
  /\ rotations = 3
  /\ BackupIndices = {1, 2}
  /\ fs[<<"plain", 1>>].data = <<3>>
  /\ fs[<<"plain", 2>>].data = <<2>>

RetiredFiles == {retired[k] : k \in 1..Len(retired)}

\* a gzip stream, whole or cut short
IsGzipStream(bytes) == Len(bytes) >= 1 /\ bytes[1] = GzHeader

\* C5: in every reachable state a file at {path}.i.gz is the complete
\* compressed image of one whole retired file, and a gzip stream that is
\* cut short exists at no path but {path}.1.gz.temp.
C5_FinalGzIsComplete ==
  /\ \A i \in Indices :
       fs[<<"gz", i>>].exists =>
         /\ IsCompleteGzip(fs[<<"gz", i>>].data)
         /\ Gunzip(fs[<<"gz", i>>].data) \in RetiredFiles
  /\ \A p \in Paths \ {TempPath} :
       (fs[p].exists /\ IsGzipStream(fs[p].data)) => IsCompleteGzip(fs[p].data)

\* the compressor has written part of a stream while an older backup stands
C5_Witness ==
  /\ fs[TempPath].exists
  /\ ~IsCompleteGzip(fs[TempPath].data)
  /\ Len(fs[TempPath].data) >= 2
  /\ fs[<<"gz", 2>>].exists
  /\ Len(workers) = 0

\* how often the byte b stands in a sequence of bytes
Count(bytes, b) == Cardinality({k \in 1..Len(bytes) : bytes[k] = b})

\* C6: once the active path has been removed by another process and
\* reopen_check_interval has passed since, every write that returns Ok
\* leaves the file at path existing, the handle open on it, and its own
\* bytes in that file exactly once.
C6_ReopenAfterDelete ==
  [][\A n \in WriteLens :
       (/\ WriteCall(n)
        /\ deleted_at >= 0
        /\ now - deleted_at >= reopen_check_interval
        /\ last_res' = "Ok")
       => (/\ fs'[ActivePath].exists
           /\ file'.open /\ file'.linked
           /\ Count(ActiveBytes', wseq + 1) = n
           /\ \A p \in Paths \ {ActivePath} : Count(fs'[p].data, wseq + 1) = 0)]_vars

\* the second write found the path gone and the interval over, and its byte
\* is the first of the file it created
C6_Witness ==
  /\ last_op = "write" /\ last_res = "Ok"
  /\ wseq = 2
  /\ deleted_at >= 0 /\ now - deleted_at >= reopen_check_interval
  /\ rotations = 0 /\ faults = 0
  /\ fs[ActivePath].exists /\ file.open /\ file.linked
  /\ ActiveBytes = <<2>>
  /\ written_size = 1

\* C7: with rotate_keep = 0, once a rotation and the compression it
\* started have finished, no numbered backup exists.
C7_KeepZeroKeepsNothing ==
  (rotate_keep = 0 /\ rotations >= 1 /\ apc = "idle" /\ workers = <<>>)
    => BackupIndices = {}

\* no call of the caller is under way and no compressor thread is running
Quiescent == apc = "idle" /\ workers = <<>>

Contiguous == \E n \in 0..(MaxKeep + 1) : BackupIndices = 1..n

WriteStep == \E n \in WriteLens : WriteCall(n)

\* the write of this step opens a handle: there is none, or the check is
\* due and finds the path gone
Reopens ==
  ~file.open \/ (now >= next_reopen_check /\ ~fs[ActivePath].exists)

\* the flush that returns in this step went through rotate to the reset of
\* the counter at line 136
ResetByRotation ==
  /\ FlushReturns
  /\ last_how' \in {"retire", "skip"}

C10_ResumeAfterRestart ==
  [][/\ \A n \in WriteLens :
          (/\ WriteCall(n) /\ last_res' = "Ok"
           /\ last_op = "new" /\ ~truncate
           /\ fs[ActivePath].exists /\ Len(fs[ActivePath].data) > 0)
          => (/\ written_size' = Len(fs[ActivePath].data) + n
              /\ ActiveBytes' = fs[ActivePath].data \o [k \in 1..n |-> wseq + 1]
              /\ SubSeq(fs'[ActivePath].data, 1, Len(fs[ActivePath].data))
                   = fs[ActivePath].data)
     /\ (/\ FlushBegins
         /\ last_op = "write" /\ last_res = "Ok" /\ wseq = 1 /\ ~truncate
         /\ file.open /\ file.linked
         /\ Count(ActiveBytes, 0) > 0)
          => (/\ written_size = Len(ActiveBytes)
              /\ (last_how' = "below") <=> (Len(ActiveBytes) < rotate_size))]_vars

\* one old byte and one new byte met a threshold of 2
C10_Witness ==
  /\ last_op = "flush" /\ last_res = "Ok" /\ last_how = "retire"
  /\ wseq = 1 /\ ~truncate /\ rotate_size = 2
  /\ retired = << <<0, 1>> >>
  /\ written_size = 0

\* the n bytes of the k-th write
BytesOfWrite(k, n) == [j \in 1..n |-> k]

ExampleBoth ==
  BytesOfWrite(1, ExampleFirstLen) \o BytesOfWrite(2, ExampleSecondLen)

\* C11: with rotate_size = 10, rotate_keep = 2 and no compression on a path
\* that does not exist, the flush after a first write of 5 bytes does not
\* rotate, and the flush after a following write of 6 bytes rotates: the
\* active file exists and is empty, {path}.1 holds the 11 bytes of both
\* writes in order, and there is no other backup.
C11_ThresholdExample ==
  [][/\ (/\ FlushBegins /\ last_op = "write" /\ wseq = 1
         /\ ActiveBytes = BytesOfWrite(1, ExampleFirstLen))
          => (/\ last_res' = "Ok" /\ last_how' = "below"
              /\ rotations' = 0 /\ retired' = <<>>
              /\ BackupIndices' = {}
              /\ fs'[ActivePath] = FileOf(BytesOfWrite(1, ExampleFirstLen))
              /\ written_size' = ExampleFirstLen)
     /\ (/\ FlushBegins /\ last_op = "write" /\ wseq = 2 /\ rotations = 0
         /\ ActiveBytes = ExampleBoth)
          => (/\ last_res' = "Ok" /\ last_how' = "retire"
              /\ ActiveFresh'
              /\ written_size' = 0
              /\ fs'[<<"plain", 1>>] = FileOf(ExampleBoth)
              /\ BackupIndices' = {1})]_vars

C11_Witness ==
  /\ rotate_size = ExampleRotateSize /\ rotate_keep = ExampleKeep
  /\ ~rotate_compress
  /\ last_op = "flush" /\ last_res = "Ok" /\ wseq = 2 /\ rotations = 1
  /\ ActiveFresh
  /\ fs[<<"plain", 1>>] = FileOf(ExampleBoth)
  /\ BackupIndices = {1}

\* a write whose reopen_if_needed calls self.path.exists(): line 56 holds
WriteChecks == WriteStep /\ now >= next_reopen_check

\* a flush that goes through rotate to lines 136-138, where the counter is
\* reset, next_reopen_check is set to now and reopen_if_needed checks
RotationChecks == FlushReturns /\ written_size >= 1 /\ written_size' = 0

\* a check has been made: every check leaves next_reopen_check one
\* interval after its own time
HasChecked == next_reopen_check >= reopen_check_interval
LastCheck == next_reopen_check - reopen_check_interval

\* C12, as stated: every existence check of the active path, that of a
\* flush that rotates included, comes at least reopen_check_interval after
\* the check before it.
C12_AsStated ==
  [][((WriteChecks \/ RotationChecks) /\ HasChecked)
       => now - LastCheck >= reopen_check_interval]_vars

\* C12, amended: a write checks only when now >= next_reopen_check, every
\* check moves next_reopen_check to one interval after itself and nothing
\* else moves it, so a check made by a write comes at least one interval
\* after the check before it; a rotation that gets past its prune checks at
\* once, however recent the check before it.
C12_ThrottledButForRotation ==
  [][/\ WriteStep
          => next_reopen_check' =
               (IF now >= next_reopen_check
                THEN now + reopen_check_interval
                ELSE next_reopen_check)
     /\ (WriteChecks /\ HasChecked) => now - LastCheck >= reopen_check_interval
     /\ RotationChecks => next_reopen_check' = now + reopen_check_interval
     /\ (~WriteStep /\ ~RotationChecks)
          => next_reopen_check' = next_reopen_check]_vars

\* a rotation checked half an interval after the first write had checked
C12_Witness ==
  /\ last_op = "flush" /\ last_res = "Ok" /\ last_how = "retire"
  /\ apc = "idle"
  /\ wseq = 1 /\ deletes = 0 /\ faults = 0
  /\ now = TickMillis
  /\ now < reopen_check_interval
  /\ next_reopen_check = now + reopen_check_interval
  /\ retired = << <<1>> >>
  /\ fs[ActivePath].exists

\* the refusals the operating system may answer a rename or a removal of
\* a rotation with
RotationFaults == Faults \ {NoFault, <<"open", 0>>}

\* C13: a flush that returns an error because its rotation failed, at the
\* poll of the compression or at a rename or removal of the cascade, the
\* retirement or the prune, leaves the handle that was open before it open:
\* it is the same handle, with its buffer flushed, for the writes to come.
C13_HandleSurvivesFailedRotation ==
  [][\A fault \in RotationFaults \cup {NoFault} :
       (/\ Flush(fault)
        /\ apc' = "idle"
        /\ last_how' # "below" /\ last_res' = "Err"
        /\ file.open)
       => file' = [file EXCEPT !.buf = <<>>]]_vars

\* the step leaves every path as it is, but for the buffered bytes that the
\* flush writes into the active file
OnlyBufferFlushed ==
  /\ file' = [file EXCEPT !.buf = <<>>]
  /\ \A p \in Paths : fs'[p].exists = fs[p].exists
  /\ \A p \in Paths \ {ActivePath} : fs'[p] = fs[p]
  /\ ActiveBytes' = ActiveBytes
  /\ written_size' = written_size
  /\ workers' = workers
  /\ rotations' = rotations
  /\ retired' = retired
  /\ apc' = "idle"

\* C14: while the error of a finished compressor waits in the channel, a
\* flush below the threshold returns Ok and leaves the error there, and a
\* flush that meets the threshold returns the error and does not rotate:
\* the handle stays open, no path is renamed or removed, written_size
\* stays and no thread is started.
C14_WorkerErrorStopsRotation ==
  [][(FlushBegins /\ wait_compression /\ chan = "err")
       => /\ OnlyBufferFlushed
          /\ wait_compression'
          /\ IF written_size >= rotate_size
             THEN last_res' = "Err" /\ last_how' = "gate"
             ELSE last_res' = "Ok" /\ last_how' = "below" /\ chan' = "err"]_vars

\* the flush after the third write met the error of the compressor, which
\* the flush after the second, below the threshold, had left unreported
C14_Witness ==
  /\ last_op = "flush" /\ last_res = "Err" /\ last_how = "gate"
  /\ wait_compression /\ chan = "disconnected"
  /\ file.open /\ file.linked
  /\ rotate_size = 2 /\ wseq = 3 /\ written_size = 2
  /\ fs[ActivePath].data = <<2, 3>>
  /\ rotations = 1

\* C15: a flush whose rotation polls the channel and receives the result
\* of the compressor, Ok or an error, leaves no pending compression behind
\* but the one it starts itself, and in no state is a compression pending
\* on a channel whose result has been received.
C15_PendingClearedOnceConsumed ==
  [][(FlushBegins /\ written_size >= rotate_size /\ wait_compression
        /\ chan \in {"ok", "err"})
       => /\ wait_compression' => Len(workers') = Len(workers) + 1
          /\ ~(wait_compression' /\ chan' = "disconnected")]_vars

\* the paths that hold log bytes as they were written
PlainPaths == {ActivePath} \cup {<<"plain", i>> : i \in Indices}

\* the bytes at a path, those the BufWriter still holds for it included
BytesAt(p) == IF p = ActivePath THEN ActiveBytes ELSE fs[p].data

\* the bytes of one write lie in one file
NoWriteSplit ==
  \A k \in 1..MaxWrites :
    Cardinality({p \in PlainPaths : Count(BytesAt(p), k) > 0}) <= 1

\* C16: a write, whatever written_size is against rotate_size, renames or
\* removes neither the active file nor a backup, starts no compressor
\* thread and leaves the pending compression as it is; its bytes, when it
\* returns Ok, are the last ones of the active file, and in no state are
\* the bytes of one write divided between two files.
C16_WriteNeverRotates ==
  [][/\ \A n \in 1..LongWriteLen :
          WriteCall(n)
          => /\ \A p \in Paths \ {ActivePath} : fs'[p] = fs[p]
             /\ fs[ActivePath].exists => fs'[ActivePath].exists
             /\ workers' = workers
             /\ wait_compression' = wait_compression
             /\ chan' = chan
             /\ rotations' = rotations /\ retired' = retired
             /\ apc' = "idle"
             /\ (last_res' = "Ok" /\ file'.linked)
                  => /\ Len(ActiveBytes') >= n
                     /\ SubSeq(ActiveBytes', Len(ActiveBytes') - n + 1,
                               Len(ActiveBytes')) = BytesOfWrite(wseq + 1, n)
                     /\ Count(ActiveBytes', wseq + 1) = n
     /\ NoWriteSplit']_vars

\* a write of two bytes took written_size from below the threshold to
\* above it while a compression was pending beside an older backup
C16_Witness ==
  /\ last_op = "write" /\ last_res = "Ok"
  /\ rotate_compress /\ wait_compression
  /\ rotate_size = 2 /\ written_size = 3
  /\ ActiveBytes = <<2, 3, 3>>
  /\ fs[PlainPath].exists

\* a flush whose rotation has gone through its cascade and its retirement
CascadeDone ==
  /\ FlushBegins
  /\ last_how' \in {"retire", "skip"}
  /\ apc' = "spawned" \/ last_res' = "Ok"

\* C17: the cascade of a rotation leaves in slot i + 1 what slot i held
\* before it, for every 1 <= i < rotate_keep (nothing where slot i was
\* empty), the rest of the rotation leaves the slots 2..rotate_keep alone,
\* and after a successful rotation slot rotate_keep + 1 is empty: what
\* slot rotate_keep held is the only content that is dropped.
C17_CascadeShiftsByOne ==
  [][/\ CascadeDone
          => /\ \A i \in 1..(rotate_keep - 1) :
                  fs'[rotated_path(i + 1)] = fs[rotated_path(i)]
             /\ apc' = "idle" => ~fs'[rotated_path(rotate_keep + 1)].exists
     /\ (apc = "spawned" /\ FlushReturns /\ last_res' = "Ok")
          => /\ \A i \in 2..rotate_keep :
                  fs'[rotated_path(i)] = fs[rotated_path(i)]
             /\ ~fs'[rotated_path(rotate_keep + 1)].exists]_vars

\* the third rotation moved the second retired file from slot 1 to slot 2
\* and dropped the first
C17_Witness ==
  /\ rotate_compress /\ rotate_keep = 2
  /\ last_op = "flush" /\ last_res = "Ok" /\ apc = "idle"
  /\ rotations = 3 /\ Len(retired) = 3
  /\ fs[<<"gz", 2>>].exists
  /\ Gunzip(fs[<<"gz", 2>>].data) = retired[2]
  /\ fs[PlainPath].data = retired[1]
  /\ ~fs[<<"gz", 3>>].exists

\* a flush met the threshold and returned without rotating because the
\* compression was still running
Deferred ==
  /\ rotate_compress
  /\ last_op = "flush" /\ last_how = "pending"
  /\ written_size >= rotate_size

\* a flush has retired the active file and reset the counter
Rotated ==
  /\ apc = "idle"
  /\ last_op = "flush" /\ last_how = "retire" /\ last_res = "Ok"
  /\ written_size = 0
  /\ ActiveFresh

\* C18: with rotate_compress, when every compressor step succeeds, the
\* threads run on and the caller goes on flushing while written_size >=
\* rotate_size, a rotation that was put off because the compression was
\* pending is followed by a flush that retires the active file and resets
\* written_size to 0.
C18_DeferredRotationHappens == Deferred ~> Rotated

\* with rotate_size = 1 the file retired last holds two writes: the flush
\* after the first of them was put off
C18_Witness ==
  /\ Rotated
  /\ rotate_compress /\ rotate_size = 1
  /\ rotations = 2
  /\ retired[1] = <<2, 3>>
  /\ fs[<<"gz", 1>>].exists

\* a flush whose rotation has passed the poll and run its cascade
CascadeRuns == FlushBegins /\ last_how' \in {"retire", "skip"}

\* the bytes of the file retired last are kept from its retirement on by
\* every step up to the cascade of the next rotation
RetiredKept ==
  /\ (FlushBegins /\ apc' = "spawned")
       => \E b \in {retired'[1]} : Backup1Holds(b)'
  /\ (retired # <<>> /\ Backup1Holds(retired[1]) /\ ~CascadeRuns)
       => (retired' = retired /\ \E b \in {retired[1]} : Backup1Holds(b)')

\* C19, as stated: with compression, from the rename of the active file to
\* {path}.1 until the cascade of the next rotation the whole retired
\* content is at {path}.1 or, compressed and complete, at {path}.1.gz,
\* whatever the compressor and the appender do.
C19_AsStated == [][rotate_compress => RetiredKept]_vars

\* C19, amended: the same for rotate_keep >= 1.
C19_RetiredBytesKept ==
  [][(rotate_compress /\ rotate_keep >= 1) => RetiredKept]_vars

\* the compressor failed after it had written part of the stream: the
\* retired file is still at {path}.1
C19_Witness ==
  /\ rotate_compress /\ rotate_keep >= 1
  /\ apc = "idle" /\ workers = <<>> /\ chan = "err"
  /\ retired # <<>>
  /\ fs[PlainPath].exists /\ fs[PlainPath].data = retired[1]
  /\ ~fs[<<"gz", 1>>].exists
  /\ fs[TempPath].exists /\ ~IsCompleteGzip(fs[TempPath].data)

\* the flush before this step returned an error from rotate after
\* self.file.take(), and the active path still exists
FailedRotationLeftFile ==
  /\ last_op = "flush" /\ last_res = "Err"
  /\ last_how \in {"retire", "skip"}
  /\ ~file.open
  /\ fs[ActivePath].exists

\* C20: after a flush that returned an error from rotate with the handle
\* closed and the active path still there, the write that follows leaves
\* the active file beginning with all the bytes it held at the failed
\* flush, with truncate = true as with truncate = false.
C20_FailedRotationKeepsBytes ==
  [][(WriteStep /\ FailedRotationLeftFile /\ last_res' = "Ok")
       => /\ Len(ActiveBytes') >= Len(fs[ActivePath].data)
          /\ SubSeq(ActiveBytes', 1, Len(fs[ActivePath].data))
               = fs[ActivePath].data]_vars

TypeOK ==
  /\ (file.open /\ file.linked) => fs[ActivePath].exists
  /\ Len(workers) <= 3

====
